---- MODULE Spec2Model ----
(***************************************************************************)
(* Model of devops_test_calculations.py: the module-level assumptions,     *)
(* the three estimator functions, the two report routines and the          *)
(* __main__ entry point.                                                   *)
(*                                                                         *)
(* Python ints are TLA+ integers.  Python floats are modelled as exact     *)
(* non-negative rationals n/d * 10^e kept in a canonical form (rounding of *)
(* IEEE doubles is not modelled), so that values such as 26e9 and 90e12    *)
(* stay representable and equal values have equal representations.         *)
(***************************************************************************)
EXTENDS Integers, Sequences, FiniteSets, TLC

VARIABLES name, globals, pc, i, calls, printed

vars == <<name, globals, pc, i, calls, printed>>

(* ------------------------------ bounds --------------------------------- *)

MaxWords == 2      \* client word counts 0..MaxWords besides the listed ones
MaxUsers == 1      \* client user counts 0..2*MaxUsers besides the listed ones
MaxGpus  == 1      \* client GPU counts 0..2*MaxGpus
MaxCalls == 2      \* calls an importing client starts

(* ------------------------- exact float arithmetic ---------------------- *)

\* (functions rather than operators: their arguments are evaluated once)
GCD[a \in Nat, b \in Nat] == IF b = 0 THEN a ELSE GCD[b, a % b]

\* Canonical form of n/d * 10^e (n >= 0, d > 0): gcd(n, d) = 1, d coprime
\* to 10, n not a multiple of 10; zero is 0/1 * 10^0.
Canon[n \in Nat, d \in Nat, e \in Int] ==
    IF n = 0 THEN [n |-> 0, d |-> 1, e |-> 0]
    ELSE IF GCD[n, d] > 1 THEN Canon[n \div GCD[n, d], d \div GCD[n, d], e]
    ELSE IF d % 2 = 0 THEN Canon[n * 5, d \div 2, e - 1]
    ELSE IF d % 5 = 0 THEN Canon[n * 2, d \div 5, e - 1]
    ELSE IF n % 10 = 0 THEN Canon[n \div 10, d, e + 1]
    ELSE [n |-> n, d |-> d, e |-> e]

\* float(k) for a Python int k >= 0
Float(k) == Canon[k, 1, 0]

\* the float literal m e x, e.g. 1e9 is Lit(1, 9)
Lit(m, x) == Canon[m, 1, x]

IsZero(a) == a.n = 0

\* a * b on floats
FMul(a, b) == Canon[a.n * b.n, a.d * b.d, a.e + b.e]

\* a / b on floats, b # 0
FDiv(a, b) == Canon[a.n * b.d, a.d * b.n, a.e - b.e]

(* ------------------------------ results -------------------------------- *)

Return(v) == [exc |-> "none", val |-> v]

Raise(x) == [exc |-> x, val |-> <<>>]

(* --------------------------- module globals ---------------------------- *)

GlobalsInit ==
    [GPU_TFLOPS                 |-> 90,
     GPU_HOURLY_COST            |-> Lit(2, 0),
     WORDS_PER_MIN_TRANSLATION  |-> 1000,
     WORDS_PER_HOUR_TRANSLATION |-> 1000 * 60,
     LLM_PARAMS_BILLIONS        |-> 13,
     FLOPS_PER_TOKEN            |-> FMul(Float(2 * 13), Lit(1, 9)),
     TOKENS_PER_USER_PER_DAY    |-> 3000]

(* ------------------------------ estimators ----------------------------- *)

\* the per-minute rate used where the per-hour rate belongs
translation_estimates_per_minute(G, words_per_day) ==
    IF G.WORDS_PER_MIN_TRANSLATION = 0 THEN Raise("ZeroDivisionError")
    ELSE LET gpu_hours    == FDiv(Float(words_per_day),
                                  Float(G.WORDS_PER_MIN_TRANSLATION))
             total_tflops == FMul(FMul(gpu_hours, Float(3600)),
                                  Float(G.GPU_TFLOPS))
             cost         == FMul(gpu_hours, G.GPU_HOURLY_COST)
         IN  Return(<<gpu_hours, total_tflops, cost>>)

\* the operations counted over 60 seconds of each hour, not 3600
translation_estimates_sixty(G, words_per_day) ==
    IF G.WORDS_PER_HOUR_TRANSLATION = 0 THEN Raise("ZeroDivisionError")
    ELSE LET gpu_hours    == FDiv(Float(words_per_day),
                                  Float(G.WORDS_PER_HOUR_TRANSLATION))
             total_tflops == FMul(FMul(gpu_hours, Float(60)),
                                  Float(G.GPU_TFLOPS))
             cost         == FMul(gpu_hours, G.GPU_HOURLY_COST)
         IN  Return(<<gpu_hours, total_tflops, cost>>)

translation_estimates(G, words_per_day) ==
    IF G.WORDS_PER_HOUR_TRANSLATION = 0 THEN Raise("ZeroDivisionError")
    ELSE LET gpu_hours    == FDiv(Float(words_per_day),
                                  Float(G.WORDS_PER_HOUR_TRANSLATION))
             total_tflops == FMul(FMul(gpu_hours, Float(3600)),
                                  Float(G.GPU_TFLOPS))
             cost         == FMul(gpu_hours, G.GPU_HOURLY_COST)
         IN  Return(<<gpu_hours, total_tflops, cost>>)

\* num_gpus left out of the total rate
translation_doc_time_one_gpu(G, words, num_gpus) ==
    LET words_per_min_total == G.WORDS_PER_MIN_TRANSLATION
    IN  IF words_per_min_total = 0 THEN Raise("ZeroDivisionError")
        ELSE Return(<<FDiv(Float(words), Float(words_per_min_total))>>)

translation_doc_time(G, words, num_gpus) ==
    LET words_per_min_total == G.WORDS_PER_MIN_TRANSLATION * num_gpus
    IN  IF words_per_min_total = 0 THEN Raise("ZeroDivisionError")
        ELSE Return(<<FDiv(Float(words), Float(words_per_min_total))>>)

\* tera taken for giga in the peak rate
llm_chat_estimates_giga(G, users_per_day) ==
    LET tokens           == users_per_day * G.TOKENS_PER_USER_PER_DAY
        flops_day        == FMul(Float(tokens), G.FLOPS_PER_TOKEN)
        flops_per_second == FMul(Float(G.GPU_TFLOPS), Lit(1, 9))
    IN  IF IsZero(flops_per_second) THEN Raise("ZeroDivisionError")
        ELSE LET gpu_seconds  == FDiv(flops_day, flops_per_second)
                 gpu_hours    == FDiv(gpu_seconds, Float(3600))
                 total_tflops == FMul(FMul(gpu_hours, Float(3600)),
                                      Float(G.GPU_TFLOPS))
                 cost         == FMul(gpu_hours, G.GPU_HOURLY_COST)
             IN  Return(<<tokens, gpu_hours, total_tflops, cost>>)

\* one user too many counted
llm_chat_estimates_one_more(G, users_per_day) ==
    LET tokens           == (users_per_day + 1) * G.TOKENS_PER_USER_PER_DAY
        flops_day        == FMul(Float(tokens), G.FLOPS_PER_TOKEN)
        flops_per_second == FMul(Float(G.GPU_TFLOPS), Lit(1, 12))
    IN  IF IsZero(flops_per_second) THEN Raise("ZeroDivisionError")
        ELSE LET gpu_seconds  == FDiv(flops_day, flops_per_second)
                 gpu_hours    == FDiv(gpu_seconds, Float(3600))
                 total_tflops == FMul(FMul(gpu_hours, Float(3600)),
                                      Float(G.GPU_TFLOPS))
                 cost         == FMul(gpu_hours, G.GPU_HOURLY_COST)
             IN  Return(<<tokens, gpu_hours, total_tflops, cost>>)

\* the cost taken from the GPU seconds
llm_chat_estimates_cost_seconds(G, users_per_day) ==
    LET tokens           == users_per_day * G.TOKENS_PER_USER_PER_DAY
        flops_day        == FMul(Float(tokens), G.FLOPS_PER_TOKEN)
        flops_per_second == FMul(Float(G.GPU_TFLOPS), Lit(1, 12))
    IN  IF IsZero(flops_per_second) THEN Raise("ZeroDivisionError")
        ELSE LET gpu_seconds  == FDiv(flops_day, flops_per_second)
                 gpu_hours    == FDiv(gpu_seconds, Float(3600))
                 total_tflops == FMul(FMul(gpu_hours, Float(3600)),
                                      Float(G.GPU_TFLOPS))
                 cost         == FMul(gpu_seconds, G.GPU_HOURLY_COST)
             IN  Return(<<tokens, gpu_hours, total_tflops, cost>>)

\* the GPU time divided by the number of users
llm_chat_estimates_per_user(G, users_per_day) ==
    LET tokens           == users_per_day * G.TOKENS_PER_USER_PER_DAY
        flops_day        == FMul(Float(tokens), G.FLOPS_PER_TOKEN)
        flops_per_second == FMul(Float(G.GPU_TFLOPS), Lit(1, 12))
    IN  IF IsZero(flops_per_second) \/ users_per_day = 0 THEN Raise("ZeroDivisionError")
        ELSE LET gpu_seconds  == FDiv(flops_day, flops_per_second)
                 gpu_hours    == FDiv(gpu_seconds, Float(3600))
                 total_tflops == FMul(FMul(gpu_hours, Float(3600)),
                                      Float(G.GPU_TFLOPS))
                 cost         == FMul(gpu_hours, G.GPU_HOURLY_COST)
             IN  Return(<<tokens, gpu_hours, total_tflops, cost>>)

\* the total taken from the GPU seconds
llm_chat_estimates_from_seconds(G, users_per_day) ==
    LET tokens           == users_per_day * G.TOKENS_PER_USER_PER_DAY
        flops_day        == FMul(Float(tokens), G.FLOPS_PER_TOKEN)
        flops_per_second == FMul(Float(G.GPU_TFLOPS), Lit(1, 12))
    IN  IF IsZero(flops_per_second) THEN Raise("ZeroDivisionError")
        ELSE LET gpu_seconds  == FDiv(flops_day, flops_per_second)
                 gpu_hours    == FDiv(gpu_seconds, Float(3600))
                 total_tflops == FMul(FMul(gpu_seconds, Float(3600)),
                                      Float(G.GPU_TFLOPS))
                 cost         == FMul(gpu_hours, G.GPU_HOURLY_COST)
             IN  Return(<<tokens, gpu_hours, total_tflops, cost>>)

llm_chat_estimates(G, users_per_day) ==
    LET tokens           == users_per_day * G.TOKENS_PER_USER_PER_DAY
        flops_day        == FMul(Float(tokens), G.FLOPS_PER_TOKEN)
        flops_per_second == FMul(Float(G.GPU_TFLOPS), Lit(1, 12))
    IN  IF IsZero(flops_per_second) THEN Raise("ZeroDivisionError")
        ELSE LET gpu_seconds  == FDiv(flops_day, flops_per_second)
                 gpu_hours    == FDiv(gpu_seconds, Float(3600))
                 total_tflops == FMul(FMul(gpu_hours, Float(3600)),
                                      Float(G.GPU_TFLOPS))
                 cost         == FMul(gpu_hours, G.GPU_HOURLY_COST)
             IN  Return(<<tokens, gpu_hours, total_tflops, cost>>)

(* ------------------------------ the program ---------------------------- *)

\* arguments an importing client passes
WordInputs == (0 .. MaxWords) \cup {10000, 60000}

UserInputs == (0 .. 2 * MaxUsers) \cup {100, 200}

GpuInputs == 0 .. 2 * MaxGpus

\* a call made, with what it returned or raised
Call(fn, args, ret) == [fn |-> fn, args |-> args, ret |-> ret]

\* the chat report left out of the entry point
AfterTranslationSummary_only == IF name = "__main__" THEN "done" ELSE "idle"

\* where a report routine returns to
AfterTranslationSummary == IF name = "__main__" THEN "main_129" ELSE "idle"

AfterLlmChatSummary == IF name = "__main__" THEN "done" ELSE "idle"

\* an exception raised inside a report routine is not caught
Continue(ret, next) == IF ret.exc = "none" THEN next ELSE "raised"

Init ==
    /\ name \in {"__main__", "imported"}
    /\ globals = GlobalsInit
    /\ pc = "main_127"
    /\ i = 0
    /\ calls = <<>>
    /\ printed = 0

\* if __name__ == "__main__":
MainGuard ==
    /\ pc = "main_127"
    /\ pc' = IF name = "__main__" THEN "main_128" ELSE "idle"
    /\ UNCHANGED <<name, globals, i, calls, printed>>

\* print_translation_summary() called from the entry point
Main128 ==
    /\ pc = "main_128"
    /\ pc' = "pts_48"
    /\ UNCHANGED <<name, globals, i, calls, printed>>

\* print_llm_chat_summary() called from the entry point
Main129 ==
    /\ pc = "main_129"
    /\ pc' = "lcs_103"
    /\ UNCHANGED <<name, globals, i, calls, printed>>

\* print_translation_summary, the banner and the assumptions
PtsHeader ==
    /\ pc = "pts_48"
    /\ printed' = printed + 6
    /\ i' = 1
    /\ pc' = "pts_58"
    /\ UNCHANGED <<name, globals, calls>>

\* one iteration of: for gpus in [1, 2]
PtsDocTime ==
    /\ pc = "pts_58"
    /\ LET target_words == 10000
           gpus         == <<1, 2>>[i]
           ret          == translation_doc_time(globals, target_words, gpus)
       IN  /\ calls' = Append(calls,
                        Call("translation_doc_time", <<target_words, gpus>>, ret))
           /\ printed' = IF ret.exc = "none" THEN printed + 1 ELSE printed
           /\ i' = IF i < 2 THEN i + 1 ELSE 1
           /\ pc' = Continue(ret, IF i < 2 THEN "pts_58" ELSE "pts_62")
    /\ UNCHANGED <<name, globals>>

\* the blank line and the table header
PtsTableHeader ==
    /\ pc = "pts_62"
    /\ printed' = printed + 4
    /\ pc' = "pts_68"
    /\ UNCHANGED <<name, globals, i, calls>>

\* a row that rebinds the global rate to the scenario's load
PtsRow_rebinds ==
    /\ pc = "pts_68"
    /\ LET scenarios == <<10000, 100000, 1000000>>
           words     == scenarios[i]
           ret       == translation_estimates(globals, words)
       IN  /\ calls' = Append(calls, Call("translation_estimates", <<words>>, ret))
           /\ printed' = IF ret.exc = "none" THEN printed + 1 ELSE printed
           /\ i' = IF i < 3 THEN i + 1 ELSE 0
           /\ pc' = Continue(ret, IF i < 3 THEN "pts_68" ELSE "pts_71")
           /\ globals' = [globals EXCEPT !.WORDS_PER_HOUR_TRANSLATION = words]
    /\ UNCHANGED name

\* one iteration of: for words in scenarios
PtsRow ==
    /\ pc = "pts_68"
    /\ LET scenarios == <<10000, 100000, 1000000>>
           words     == scenarios[i]
           ret       == translation_estimates(globals, words)
       IN  /\ calls' = Append(calls, Call("translation_estimates", <<words>>, ret))
           /\ printed' = IF ret.exc = "none" THEN printed + 1 ELSE printed
           /\ i' = IF i < 3 THEN i + 1 ELSE 0
           /\ pc' = Continue(ret, IF i < 3 THEN "pts_68" ELSE "pts_71")
    /\ UNCHANGED <<name, globals>>

\* the closing blank line, and the return
PtsEnd ==
    /\ pc = "pts_71"
    /\ printed' = printed + 1
    /\ pc' = AfterTranslationSummary
    /\ UNCHANGED <<name, globals, i, calls>>

\* print_llm_chat_summary, the banner, the assumptions and the table header
LcsHeader ==
    /\ pc = "lcs_103"
    /\ printed' = printed + 11
    /\ i' = 1
    /\ pc' = "lcs_116"
    /\ UNCHANGED <<name, globals, calls>>

\* one iteration of: for users in scenarios
LcsRow ==
    /\ pc = "lcs_116"
    /\ LET scenarios == <<100, 10000, 100000>>
           users     == scenarios[i]
           ret       == llm_chat_estimates(globals, users)
       IN  /\ calls' = Append(calls, Call("llm_chat_estimates", <<users>>, ret))
           /\ printed' = IF ret.exc = "none" THEN printed + 1 ELSE printed
           /\ i' = IF i < 3 THEN i + 1 ELSE 0
           /\ pc' = Continue(ret, IF i < 3 THEN "lcs_116" ELSE "lcs_120")
    /\ UNCHANGED <<name, globals>>

\* the closing blank line, and the return
LcsEnd ==
    /\ pc = "lcs_120"
    /\ printed' = printed + 1
    /\ pc' = AfterLlmChatSummary
    /\ UNCHANGED <<name, globals, i, calls>>

(* ----------------- a client that imported the module ------------------- *)

ClientReady == pc = "idle" /\ Len(calls) < MaxCalls

ClientTranslationEstimates ==
    /\ ClientReady
    /\ \E words_per_day \in WordInputs :
          calls' = Append(calls, Call("translation_estimates", <<words_per_day>>,
                                      translation_estimates(globals, words_per_day)))
    /\ UNCHANGED <<name, globals, pc, i, printed>>

ClientTranslationDocTime ==
    /\ ClientReady
    /\ \E words \in WordInputs, num_gpus \in GpuInputs :
          calls' = Append(calls, Call("translation_doc_time", <<words, num_gpus>>,
                                      translation_doc_time(globals, words, num_gpus)))
    /\ UNCHANGED <<name, globals, pc, i, printed>>

\* num_gpus left out: the default of 1 applies
ClientTranslationDocTimeDefault ==
    /\ ClientReady
    /\ \E words \in WordInputs :
          calls' = Append(calls, Call("translation_doc_time", <<words, 1>>,
                                      translation_doc_time(globals, words, 1)))
    /\ UNCHANGED <<name, globals, pc, i, printed>>

ClientLlmChatEstimates ==
    /\ ClientReady
    /\ \E users_per_day \in UserInputs :
          calls' = Append(calls, Call("llm_chat_estimates", <<users_per_day>>,
                                      llm_chat_estimates(globals, users_per_day)))
    /\ UNCHANGED <<name, globals, pc, i, printed>>

ClientPrintTranslationSummary ==
    /\ ClientReady
    /\ pc' = "pts_48"
    /\ UNCHANGED <<name, globals, i, calls, printed>>

ClientPrintLlmChatSummary ==
    /\ ClientReady
    /\ pc' = "lcs_103"
    /\ UNCHANGED <<name, globals, i, calls, printed>>

Next ==
    \/ MainGuard
    \/ Main128
    \/ Main129
    \/ PtsHeader
    \/ PtsDocTime
    \/ PtsTableHeader
    \/ PtsRow
    \/ PtsEnd
    \/ LcsHeader
    \/ LcsRow
    \/ LcsEnd
    \/ ClientTranslationEstimates
    \/ ClientTranslationDocTime
    \/ ClientTranslationDocTimeDefault
    \/ ClientLlmChatEstimates
    \/ ClientPrintTranslationSummary
    \/ ClientPrintLlmChatSummary

Spec == Init /\ [][Next]_vars

\* the steps the interpreter takes by itself once the script or a report
\* routine is running
Run ==
    \/ MainGuard
    \/ Main128
    \/ Main129
    \/ PtsHeader
    \/ PtsDocTime
    \/ PtsTableHeader
    \/ PtsRow
    \/ PtsEnd
    \/ LcsHeader
    \/ LcsRow
    \/ LcsEnd

\* the single thread of control keeps running while such a step is possible
FairSpec == Spec /\ WF_vars(Run)

(* ------------------------------ properties ----------------------------- *)

Made(fn) == {k \in 1 .. Len(calls) : calls[k].fn = fn}

Returned(k) == calls[k].ret.exc = "none"

\* the calls of a run as a script, in order
MainCalls ==
    << <<"translation_doc_time", <<10000, 1>> >>,
       <<"translation_doc_time", <<10000, 2>> >>,
       <<"translation_estimates", <<10000>> >>,
       <<"translation_estimates", <<100000>> >>,
       <<"translation_estimates", <<1000000>> >>,
       <<"llm_chat_estimates", <<100>> >>,
       <<"llm_chat_estimates", <<10000>> >>,
       <<"llm_chat_estimates", <<100000>> >> >>

InChatReport == pc \in {"lcs_103", "lcs_116", "lcs_120"}

InTranslationReport == pc \in {"pts_48", "pts_58", "pts_62", "pts_68", "pts_71"}

\* C1: every call translation_estimates(w) returns gpu_hours = w / 60000,
\* total_tflops = w * 27 / 5 (= gpu_hours * 3600 * 90) and cost = w / 30000
\* (= gpu_hours * 2.0); translation_estimates(60000) returns (1.0, 324000, 2.0).
C1_TranslationEstimates ==
    \A k \in Made("translation_estimates") :
        LET w == calls[k].args[1]
            v == calls[k].ret.val
        IN  /\ Returned(k)
            /\ FMul(v[1], Float(60000)) = Float(w)
            /\ FMul(v[2], Float(5)) = Float(27 * w)
            /\ FMul(v[3], Float(30000)) = Float(w)
            /\ w = 60000 => v = <<Lit(1, 0), Float(324000), Lit(2, 0)>>

C1_Witness ==
    /\ \E k \in Made("translation_estimates") :
          calls[k].args[1] = 60000 /\ calls[k].ret.val[2] = Float(324000)
    /\ \E k \in Made("translation_estimates") :
          calls[k].args[1] \notin {0, 60000} /\ Returned(k)

\* C2: every call llm_chat_estimates(u) returns tokens = u * 3000 and a
\* gpu_hours with gpu_hours * 3600 * 90e12 = tokens * 26e9;
\* llm_chat_estimates(1) returns tokens = 3000.
C2_LlmChatEstimates ==
    \A k \in Made("llm_chat_estimates") :
        LET u == calls[k].args[1]
            v == calls[k].ret.val
        IN  /\ Returned(k)
            /\ v[1] = u * 3000
            /\ FMul(v[2], FMul(Float(3600), Lit(90, 12))) = FMul(Float(v[1]), Lit(26, 9))
            /\ u = 1 => v[1] = 3000

C2_Witness ==
    /\ \E k \in Made("llm_chat_estimates") :
          calls[k].args[1] = 1 /\ calls[k].ret.val[1] = 3000
    /\ \E k \in Made("llm_chat_estimates") :
          calls[k].args[1] > 1 /\ Returned(k)

\* C3: translation_doc_time(words, g) = words / (1000 * g) for g > 0, so a
\* call with 2 * g GPUs returns exactly half of what the call with g GPUs
\* returns for the same words; 10000 words take 10.0 minutes on 1 GPU and
\* 5.0 minutes on 2.
C3_HalvingLaw ==
    /\ \A k \in Made("translation_doc_time") :
          LET words == calls[k].args[1]
              g     == calls[k].args[2]
          IN  g > 0 =>
                /\ Returned(k)
                /\ FMul(calls[k].ret.val[1], Float(1000 * g)) = Float(words)
                /\ (words = 10000 /\ g = 1) => calls[k].ret.val[1] = Lit(10, 0)
                /\ (words = 10000 /\ g = 2) => calls[k].ret.val[1] = Lit(5, 0)
    /\ \A j, k \in Made("translation_doc_time") :
          (/\ calls[j].args[1] = calls[k].args[1]
           /\ calls[j].args[2] > 0
           /\ calls[k].args[2] = 2 * calls[j].args[2])
          => FMul(calls[k].ret.val[1], Float(2)) = calls[j].ret.val[1]

C3_Witness ==
    \E j, k \in Made("translation_doc_time") :
        /\ calls[j].args[1] = calls[k].args[1]
        /\ calls[j].args[1] > 0
        /\ calls[j].args[2] > 0
        /\ calls[k].args[2] = 2 * calls[j].args[2]
        /\ Returned(j) /\ Returned(k)

\* C4: for N > 0, llm_chat_estimates(2 * N) returns exactly double the
\* tokens, the gpu_hours and the cost of llm_chat_estimates(N).
C4_Linearity ==
    \A j, k \in Made("llm_chat_estimates") :
        (calls[j].args[1] > 0 /\ calls[k].args[1] = 2 * calls[j].args[1])
        => LET a == calls[j].ret.val
               b == calls[k].ret.val
           IN  /\ Returned(j) /\ Returned(k)
               /\ b[1] = 2 * a[1]
               /\ b[2] = FMul(Float(2), a[2])
               /\ b[4] = FMul(Float(2), a[4])

C4_Witness ==
    \E j, k \in Made("llm_chat_estimates") :
        /\ calls[j].args[1] > 0
        /\ calls[k].args[1] = 2 * calls[j].args[1]
        /\ Returned(j) /\ Returned(k)

\* C5: in every tuple either estimator returns, cost = gpu_hours * 2.0.
C5_CostFromGpuHours ==
    /\ \A k \in Made("translation_estimates") :
          Returned(k) => calls[k].ret.val[3] = FMul(calls[k].ret.val[1], Lit(2, 0))
    /\ \A k \in Made("llm_chat_estimates") :
          Returned(k) => calls[k].ret.val[4] = FMul(calls[k].ret.val[2], Lit(2, 0))

C5_Witness ==
    /\ \E k \in Made("translation_estimates") :
          Returned(k) /\ ~IsZero(calls[k].ret.val[3])
    /\ \E k \in Made("llm_chat_estimates") :
          Returned(k) /\ ~IsZero(calls[k].ret.val[4])

\* C6: in every tuple either estimator returns,
\* total_tflops = gpu_hours * 3600 * 90.
C6_TflopsFromGpuHours ==
    /\ \A k \in Made("translation_estimates") :
          Returned(k) =>
             calls[k].ret.val[2] = FMul(calls[k].ret.val[1], Float(3600 * 90))
    /\ \A k \in Made("llm_chat_estimates") :
          Returned(k) =>
             calls[k].ret.val[3] = FMul(calls[k].ret.val[2], Float(3600 * 90))

C6_Witness ==
    /\ \E k \in Made("translation_estimates") :
          Returned(k) /\ ~IsZero(calls[k].ret.val[2])
    /\ \E k \in Made("llm_chat_estimates") :
          Returned(k) /\ ~IsZero(calls[k].ret.val[3])

\* the calls made so far by a run as a script are the first Len(calls) of
\* MainCalls and none raised; the chat report starts after the five calls of
\* the translation report, and at the end all eight have been made
C7_Order ==
    name = "__main__" =>
        /\ Len(calls) <= Len(MainCalls)
        /\ \A k \in 1 .. Len(calls) :
              /\ <<calls[k].fn, calls[k].args>> = MainCalls[k]
              /\ Returned(k)
        /\ pc # "raised"
        /\ InTranslationReport => Len(calls) <= 5
        /\ InChatReport => Len(calls) >= 5
        /\ pc = "done" => Len(calls) = Len(MainCalls)

\* C7: a run as a script makes the eight calls of MainCalls in that order,
\* each once, the translation report's before the chat report's, none
\* raises, and the run terminates.
C7_FixedSequence ==
    /\ []C7_Order
    /\ (name = "__main__") ~> (pc = "done")

C7_Witness == name = "__main__" /\ pc = "done" /\ Len(calls) = 8

\* C8 as stated: no call with non-negative integer arguments ends in a
\* division by zero.
C8_NoZeroDivision ==
    \A k \in 1 .. Len(calls) : calls[k].ret.exc # "ZeroDivisionError"

\* C8 amended: a call ends in a division by zero exactly when it is
\* translation_doc_time with num_gpus = 0.
C8_ZeroDivisionOnlyZeroGpus ==
    \A k \in 1 .. Len(calls) :
        calls[k].ret.exc = "ZeroDivisionError"
        <=> (calls[k].fn = "translation_doc_time" /\ calls[k].args[2] = 0)

C8_Witness ==
    /\ \E k \in Made("translation_doc_time") :
          calls[k].args[2] = 0 /\ calls[k].ret.exc = "ZeroDivisionError"
    /\ \E k \in 1 .. Len(calls) : Returned(k) /\ calls[k].args[1] = 0

\* C9: no call changes a global, and two calls of the same function with the
\* same arguments return the same tuple whatever was called in between.
C9_Pure ==
    /\ globals = GlobalsInit
    /\ \A j, k \in 1 .. Len(calls) :
          (calls[j].fn = calls[k].fn /\ calls[j].args = calls[k].args)
          => calls[j].ret = calls[k].ret

C9_Witness ==
    \E j, k \in 1 .. Len(calls) :
        /\ j < k
        /\ calls[j].fn = calls[k].fn
        /\ calls[j].args = calls[k].args
        /\ \E m \in (j + 1) .. (k - 1) : calls[m].fn # calls[j].fn

\* C10: the total_tflops llm_chat_estimates(u) returns, in tera-operations,
\* is the operation count computed directly: total_tflops * 1e12 =
\* u * 3000 * 26e9.
C10_TwoHopEquivalence ==
    \A k \in Made("llm_chat_estimates") :
        Returned(k) =>
           FMul(calls[k].ret.val[3], Lit(1, 12))
              = FMul(Float(calls[k].args[1] * 3000), Lit(26, 9))

C10_Witness ==
    \E k \in Made("llm_chat_estimates") :
        /\ Returned(k)
        /\ calls[k].args[1] > 0
        /\ calls[k].ret.val[3] = Float(78 * calls[k].args[1])

====
